---- MODULE Spec2Model ----
(***************************************************************************)
(* WhatsApp Cloud API dashboard: the message store, the provider client    *)
(* (sendWhatsAppMessage), the webhook receiver (GET/POST /api/webhook),    *)
(* the human-activity gate (GET /api/check-human), the read endpoint       *)
(* (GET /api/messages/fetch) and the dashboard's conversation grouping.    *)
(*                                                                         *)
(* Conventions of the model                                                *)
(*  - A JavaScript value that may be null/undefined is a tagged record:    *)
(*    Null, Undefined, Str(s), Bool(b), Num(n).  === is equality of the    *)
(*    tagged records.                                                      *)
(*  - A string is a sequence of chunks; a chunk is a piece of text with    *)
(*    no "+" and no whitespace in it, or a single "+" or a single " ".     *)
(*  - Time is in milliseconds (Date.now()).  A stored timestamp is the     *)
(*    millisecond value whose ISO-8601 text the code writes.               *)
(*  - hoursRemaining is reported in hundredths of an hour (the code        *)
(*    rounds to two decimals), so 1.0 hours is 100.                        *)
(*  - Every handler is cut at its awaits on the store or the provider:     *)
(*    one action per store/provider operation, so concurrent requests      *)
(*    interleave exactly where the code yields.                            *)
(*  - Columns media_url, media_mime_type, caption and metadata are written *)
(*    verbatim and read by no operation; they are left out of the rows.    *)
(***************************************************************************)
EXTENDS Integers, Sequences, FiniteSets, TLC

VARIABLES
  env,            \* process.env: the configuration the handlers read
  now,            \* Date.now(), milliseconds
  messages,       \* table messages: a set of rows (message_id is UNIQUE)
  webhook_logs,   \* table webhook_logs: rows in insertion order
  providerReqs,   \* requests the provider's send endpoint has received
  send,           \* POST /api/messages/send: the handler's position and locals
  sendResp,       \* the last response of POST /api/messages/send
  wh,             \* POST /api/webhook: per concurrent delivery, position and locals
  whResp,         \* per delivery slot, the response given to the provider
  verifyResp,     \* the last response of GET /api/webhook
  gate,           \* the last response of GET /api/check-human
  conversations,  \* the dashboard's state `conversations`
  error,          \* the dashboard's state `error`
  loading,        \* the dashboard's state `loading`
  analytics,      \* the dashboard's state `analytics`
  selectedConversation,  \* the dashboard's state `selectedConversation`
  newMessage,     \* the dashboard's state `newMessage`
  sending,        \* the dashboard's state `sending`
  refreshes,      \* the dashboard's calls of fetchMessages, in the order their
                  \* reads of the store were made
  autoRefresh,    \* the dashboard's state `autoRefresh`
  intervals,      \* the page's active setInterval timers: the time each is due
  conversations_table  \* table conversations: the summary rows the trigger
                  \* on messages maintains (phone_number is UNIQUE)

\* the state of the page that fetchMessages and the send route leave alone
page == <<selectedConversation, newMessage, refreshes, autoRefresh, intervals>>

vars == <<env, now, messages, conversations_table, webhook_logs, providerReqs,
          send, sendResp, wh, whResp, verifyResp, gate, conversations, error,
          loading, analytics, page, sending>>

----------------------------------------------------------------------------
(* Bounds of the model *)

MaxRows == 2        \* requests that may add a Message row start only below this
MaxLogs == 4        \* deliveries start only while webhook_logs is shorter
MaxHours == 3       \* the clock stops after this many whole hours
MaxFine == 2        \* at most this many milliseconds past a whole hour

----------------------------------------------------------------------------
(* JavaScript values *)

Null == [t |-> "null"]
Undefined == [t |-> "undefined"]
Str(s) == [t |-> "string", v |-> s]
Bool(b) == [t |-> "boolean", v |-> b]
Num(n) == [t |-> "number", v |-> n]

\* !x is false: the value is truthy
Truthy(x) ==
  CASE x.t = "string" -> x.v # <<>>
    [] x.t = "boolean" -> x.v
    [] x.t = "number" -> x.v # 0
    [] OTHER -> FALSE

\* a === b
StrictEquals(a, b) == a = b

\* a == b, the loose comparison (null == undefined)
LooseEquals(a, b) ==
  \/ a = b
  \/ a.t \in {"null", "undefined"} /\ b.t \in {"null", "undefined"}

\* the text of a string value (the empty text for a value that is none)
Text(x) == IF x.t = "string" THEN x.v ELSE <<>>

Max(a, b) == IF a >= b THEN a ELSE b

----------------------------------------------------------------------------
(* Strings *)

RECURSIVE RemoveAll(_, _)
\* s.replace(/c/g, '') for a set of one-character chunks
RemoveAll(s, chunks) ==
  IF s = <<>> THEN <<>>
  ELSE IF Head(s) \in chunks THEN RemoveAll(Tail(s), chunks)
       ELSE <<Head(s)>> \o RemoveAll(Tail(s), chunks)

RECURSIVE RemoveFirst(_, _)
\* s.replace('whatsapp:', ''): the first occurrence only
RemoveFirst(s, chunk) ==
  IF s = <<>> THEN <<>>
  ELSE IF Head(s) = chunk THEN Tail(s)
       ELSE <<Head(s)>> \o RemoveFirst(Tail(s), chunk)

Whitespace == {" "}

\* to.replace(/\+/g, '').replace(/\s/g, '')
cleanPhone(s) == RemoveAll(RemoveAll(s, {"+"}), Whitespace)

----------------------------------------------------------------------------
(* Time *)

Hour == 3600000               \* 1000 * 60 * 60 milliseconds
ThresholdHours == 2           \* the human-active window of check-human

\* the clock steps the model takes: one millisecond, one hour
Steps == {1, Hour}

\* the clock values of the model: whole hours and up to MaxFine ms past one
ClockAllows(d) ==
  /\ now + d <= MaxHours * Hour + MaxFine
  /\ (now + d) % Hour <= MaxFine

\* time passes
Tick(d) ==
  /\ ClockAllows(d)
  /\ now' = now + d
  /\ UNCHANGED <<env, messages, conversations_table, webhook_logs, providerReqs, send, sendResp,
                 wh, whResp, verifyResp, gate, conversations, error, loading,
                 analytics, page, sending>>

----------------------------------------------------------------------------
(* Configuration *)

EnvConfigured ==
  [WHATSAPP_PHONE_NUMBER_ID |-> Str(<<"9">>),
   WHATSAPP_ACCESS_TOKEN |-> Str(<<"token">>),
   WEBHOOK_VERIFY_TOKEN |-> Str(<<"secret">>)]

\* the deployments considered: fully configured, no access token, no verify token
Envs ==
  {EnvConfigured,
   [EnvConfigured EXCEPT !.WHATSAPP_ACCESS_TOKEN = Undefined],
   [EnvConfigured EXCEPT !.WEBHOOK_VERIFY_TOKEN = Undefined]}

----------------------------------------------------------------------------
(* The message store *)

\* what a store operation may do: succeed, return {error}, or reject (throw)
StoreOutcomes == {"ok", "error", "throw"}

\* what a store operation reports in its result: {data} or {error}
ReportedOutcomes == {"ok", "error"}

MessageIds(rows) == {r.message_id : r \in rows}

\* id UUID PRIMARY KEY DEFAULT uuid_generate_v4(): the store gives each new
\* row a key no other row has (here the row's serial number)
WithKey(rows, row) == [row EXCEPT !.id = Cardinality(rows) + 1]

\* mutant of InsertMessage: no UNIQUE constraint on message_id
InsertMessageNoUnique(rows, row) == rows \cup {WithKey(rows, row)}

\* INSERT INTO messages: message_id TEXT UNIQUE NOT NULL rejects a duplicate
InsertMessage(rows, row) ==
  IF row.message_id \in MessageIds(rows) THEN rows ELSE rows \cup {WithKey(rows, row)}

\* mutant of UpdateStatus: the update without its filter on message_id
UpdateStatusEveryRow(rows, id, s) == {[r EXCEPT !.status = s] : r \in rows}

\* UPDATE messages SET status = s WHERE message_id = id
UpdateStatus(rows, id, s) ==
  {IF r.message_id = id THEN [r EXCEPT !.status = s] ELSE r : r \in rows}

\* update_conversation_on_message(): INSERT INTO conversations ... ON CONFLICT
\* (phone_number) DO UPDATE SET ..., for the inserted row NEW (here new)
update_conversation_on_message(table, new) ==
  LET HumanReply == new.direction = "outbound" /\ ~new.is_ai_response
      AiReply == new.direction = "outbound" /\ new.is_ai_response
  IN
  IF \E c \in table : c.phone_number = new.phone_number
  THEN {IF c.phone_number = new.phone_number
        THEN [c EXCEPT
                !.last_message_at = new.timestamp,
                !.last_human_response_at =
                   IF HumanReply THEN Num(new.timestamp) ELSE @,
                !.last_ai_response_at =
                   IF AiReply THEN Num(new.timestamp) ELSE @,
                !.human_active = IF HumanReply THEN TRUE ELSE @,
                !.total_messages = @ + 1,
                !.unread_count = IF new.direction = "inbound" THEN @ + 1 ELSE @]
        ELSE c : c \in table}
  ELSE table \cup
       {[phone_number |-> new.phone_number,
         last_message_at |-> new.timestamp,
         last_human_response_at |->
           IF HumanReply THEN Num(new.timestamp) ELSE Null,
         last_ai_response_at |->
           IF AiReply THEN Num(new.timestamp) ELSE Null,
         human_active |-> HumanReply,
         total_messages |-> 1,
         unread_count |-> IF new.direction = "inbound" THEN 1 ELSE 0]}

\* CREATE TRIGGER ... AFTER INSERT ON messages FOR EACH ROW: the trigger runs
\* for the row an insert has added, and not for an insert the store rejected
AfterInsert(table, rows, row) ==
  IF row.message_id \in MessageIds(rows) THEN table
  ELSE update_conversation_on_message(table, WithKey(rows, row))

\* the table conversations of a store whose rows were inserted in the order
\* of their keys
RECURSIVE SummaryUpTo(_, _)
SummaryUpTo(rows, k) ==
  IF k = 0 THEN {}
  ELSE LET new == CHOOSE r \in rows : r.id = k
       IN update_conversation_on_message(SummaryUpTo(rows, k - 1), new)

SummaryOf(rows) == SummaryUpTo(rows, Cardinality(rows))

----------------------------------------------------------------------------
(* The provider (graph.facebook.com), an external collaborator *)

WamIds == {<<"wamid.1">>, <<"wamid.2">>}

\* The provider's answers to a send: success with an id it has not issued
\* before, success without an id, failure with and without an error message.
AnswerWithoutId == [ok |-> TRUE, id |-> Undefined, errorMessage |-> Undefined]

ProviderResponses ==
  {[ok |-> TRUE, id |-> Str(i), errorMessage |-> Undefined] :
      i \in WamIds \ MessageIds(messages)}
  \cup {AnswerWithoutId,
        [ok |-> FALSE, id |-> Undefined, errorMessage |-> Str(<<"Invalid", " ", "token">>)],
        [ok |-> FALSE, id |-> Undefined, errorMessage |-> Str(<<>>)],
        [ok |-> FALSE, id |-> Undefined, errorMessage |-> Undefined]}

----------------------------------------------------------------------------
(* Provider client and POST /api/messages/send *)

\* request bodies of POST /api/messages/send
SendTos == {Undefined, Str(<<>>), Str(<<"1">>), Str(<<"+", "1">>), Str(<<"2">>),
            Str(<<" ", "2">>)}
SendBodies == {Undefined, Str(<<>>), Str(<<"hi">>)}
SendFlags == {Undefined, Bool(TRUE), Bool(FALSE)}

SendIdle == [pc |-> "idle"]

Response(status, success, err) ==
  [status |-> status, success |-> success, error |-> err]

\* mutant of MissingFields: only the recipient is checked
MissingFieldsToOnly(to, body) == ~Truthy(to)

\* !to || !body
MissingFields(to, body) == ~Truthy(to) \/ ~Truthy(body)

\* mutant of CredentialsMissing: only the phone-number id is checked
CredentialsMissingIdOnly == ~Truthy(env.WHATSAPP_PHONE_NUMBER_ID)

\* !phoneNumberId || !accessToken
CredentialsMissing ==
  ~Truthy(env.WHATSAPP_PHONE_NUMBER_ID) \/ ~Truthy(env.WHATSAPP_ACCESS_TOKEN)

\* mutant of ProviderErrorText: the provider's message is dropped
ProviderErrorTextGeneric(data) == <<"Failed to send message">>

\* data.error?.message || 'Failed to send message'
ProviderErrorText(data) ==
  IF Truthy(data.errorMessage) THEN data.errorMessage.v
  ELSE <<"Failed to send message">>

\* POST /api/messages/send up to the provider's answer: validation, the
\* credentials check, the provider call, the check of response.ok.  (The
\* page's `sending` is set by the caller when the caller is the dashboard.)
PostSend(to, body, isAiResponse, data, fetched) ==
  /\ send.pc = "idle"
  /\ Cardinality(messages) < MaxRows
  /\ IF MissingFields(to, body)
     THEN /\ sendResp' = Response(400, FALSE, Str(<<"Missing required fields: to, body">>))
          /\ UNCHANGED <<send, providerReqs>>
     ELSE IF CredentialsMissing
     THEN /\ sendResp' = Response(500, FALSE, Str(<<"WhatsApp credentials not configured">>))
          /\ UNCHANGED <<send, providerReqs>>
     ELSE /\ providerReqs' = providerReqs \cup {[to |-> cleanPhone(Text(to)), body |-> Text(body)]}
          /\ IF ~fetched
             THEN /\ sendResp' = Response(500, FALSE, Str(<<"fetch failed">>))
                  /\ UNCHANGED send
             ELSE IF ~data.ok
             THEN /\ sendResp' = Response(500, FALSE, Str(ProviderErrorText(data)))
                  /\ UNCHANGED send
             ELSE /\ send' = [pc |-> "insert", cleanTo |-> cleanPhone(Text(to)),
                              body |-> Text(body),
                              isAiResponse |-> Truthy(isAiResponse), data |-> data]
                  /\ UNCHANGED sendResp
  /\ UNCHANGED <<env, now, messages, conversations_table, webhook_logs, wh, whResp, verifyResp, gate,
                 conversations, error, loading, analytics, page>>

\* data.messages?.[0]?.id || `msg_${Date.now()}`
SentMessageId(data) == IF Truthy(data.id) THEN data.id.v ELSE <<"msg_", now>>

SentRow(s) ==
  [id |-> 0,
   message_id |-> SentMessageId(s.data),
   phone_number |-> s.cleanTo,
   from_number |-> env.WHATSAPP_PHONE_NUMBER_ID.v,
   to_number |-> s.cleanTo,
   body |-> s.body,
   direction |-> "outbound",
   status |-> "sent",
   timestamp |-> now,
   message_type |-> "text",
   is_ai_response |-> s.isAiResponse]

\* sendWhatsAppMessage after the provider's success: the insert of the
\* outbound row (its result is not looked at), then the route's answer
SendInsert(outcome) ==
  /\ send.pc = "insert"
  /\ messages' = IF outcome = "ok" THEN InsertMessage(messages, SentRow(send))
                 ELSE messages
  /\ conversations_table' =
       IF outcome = "ok" THEN AfterInsert(conversations_table, messages, SentRow(send))
       ELSE conversations_table
  /\ sendResp' = IF outcome = "throw"
                 THEN Response(500, FALSE, Str(<<"fetch failed">>))
                 ELSE Response(200, TRUE, Undefined)
  /\ send' = SendIdle
  /\ UNCHANGED <<env, now, webhook_logs, providerReqs, wh, whResp, verifyResp,
                 gate, conversations, error, loading,
                 analytics, page, sending>>

----------------------------------------------------------------------------
(* Webhook payloads *)

\* entries of value.messages: timestamp is the decimal text of epoch seconds
\* (Num(n) stands for the text parseInt reads as n), or is absent
Entry(id, from, ts, type, content) ==
  [id |-> id, from |-> from, timestamp |-> ts, type |-> type, content |-> content]

MsgA == Entry(<<"wamid.A">>, <<"1">>, Num(0), "text", Str(<<"hello">>))
MsgB == Entry(<<"wamid.B">>, <<"2">>, Num(3600), "image", Undefined)
MsgC == Entry(<<"wamid.B">>, <<"1">>, Num(3600), "audio", Undefined)
MsgNoTime == Entry(<<"wamid.A">>, <<"1">>, Undefined, "text", Str(<<"hello">>))

\* entries of value.statuses
StatusEntry(id, status) == [id |-> id, status |-> status]

StDelivered1 == StatusEntry(<<"wamid.1">>, "delivered")
StRead1 == StatusEntry(<<"wamid.1">>, "read")
StRead2 == StatusEntry(<<"wamid.2">>, "read")

\* body.entry[0].changes[0]: field, value.metadata.phone_number_id,
\* value.messages, value.statuses; parses: request.json() succeeds
Payload(parses, field, msgs, statuses) ==
  [parses |-> parses, field |-> field, phone_number_id |-> Str(<<"9">>),
   messages |-> msgs, statuses |-> statuses]

Payloads ==
  {Payload(FALSE, Undefined, <<>>, <<>>),
   Payload(TRUE, Undefined, <<>>, <<>>),
   Payload(TRUE, Str(<<"messages">>), <<MsgA>>, <<>>),
   Payload(TRUE, Str(<<"messages">>), <<MsgB>>, <<>>),
   Payload(TRUE, Str(<<"messages">>), <<MsgC, MsgA>>, <<>>),
   Payload(TRUE, Str(<<"messages">>), <<MsgNoTime>>, <<>>),
   Payload(TRUE, Str(<<"messages">>), <<MsgA>>, <<StRead2>>),
   Payload(TRUE, Str(<<"messages">>), <<>>, <<StDelivered1>>),
   Payload(TRUE, Str(<<"messages">>), <<>>, <<StRead1, StRead2>>)}

----------------------------------------------------------------------------
(* storeInboundMessage *)

\* new Date(parseInt(message.timestamp) * 1000): NaN when the field is absent,
\* and toISOString() of an invalid date throws RangeError
TimestampValid(entry) == entry.timestamp.t = "number"

\* mutant of InboundTimestamp: the epoch seconds taken for milliseconds
InboundTimestampSeconds(entry) == entry.timestamp.v

InboundTimestamp(entry) == entry.timestamp.v * 1000

\* mutant of CaptionOr: caption ?? '[Image]', which keeps an empty caption
CaptionOrNullish(content, placeholder) ==
  IF content.t = "string" THEN content.v ELSE <<placeholder>>

\* caption || '[Image]' and the like
CaptionOr(content, placeholder) ==
  IF Truthy(content) THEN content.v ELSE <<placeholder>>

\* the switch on message.type
InboundBody(entry) ==
  CASE entry.type = "text" -> IF Truthy(entry.content) THEN entry.content.v ELSE <<>>
    [] entry.type = "image" -> CaptionOr(entry.content, "[Image]")
    [] entry.type = "video" -> CaptionOr(entry.content, "[Video]")
    [] entry.type = "audio" -> <<"[Audio]">>
    [] entry.type = "document" -> CaptionOr(entry.content, "[Document]")
    [] OTHER -> <<"[", entry.type, "]">>

InboundRow(payload) ==
  LET message == payload.messages[1] IN
  [id |-> 0,
   message_id |-> message.id,
   phone_number |-> message.from,
   from_number |-> message.from,
   to_number |-> IF Truthy(payload.phone_number_id) THEN payload.phone_number_id.v
                 ELSE <<>>,
   body |-> InboundBody(message),
   direction |-> "inbound",
   status |-> "received",
   timestamp |-> InboundTimestamp(message),
   message_type |-> message.type,
   is_ai_response |-> FALSE]

\* data?.[0]: the insert returned the new row
InboundStored(payload, outcome) ==
  outcome = "ok" /\ payload.messages[1].id \notin MessageIds(messages)

----------------------------------------------------------------------------
(* POST /api/webhook *)

Slots == {1, 2}          \* deliveries the server handles at the same time

WhIdle == [pc |-> "idle"]
NoResponse == [status |-> 0, body |-> "none"]

Busy == {h \in Slots : wh[h].pc # "idle"}

LogRow(event_type, payload, processed, err) ==
  [event_type |-> event_type, payload |-> payload, processed |-> processed,
   error |-> err]

\* body.entry?.[0]?.changes?.[0]?.field || 'unknown'
EventType(payload) == IF Truthy(payload.field) THEN payload.field.v ELSE <<"unknown">>

\* an insert into webhook_logs whose result is not looked at
LogInsert(row, outcome) == IF outcome = "ok" THEN Append(webhook_logs, row) ELSE webhook_logs

\* mutant of CatchStatus: the failure is signalled to the provider
CatchStatusFailure == 5 * 100

\* the status of the answer given from the catch block
CatchStatus == 200

Respond(h, status, body) ==
  /\ wh' = [wh EXCEPT ![h] = WhIdle]
  /\ whResp' = [whResp EXCEPT ![h] = [status |-> status, body |-> body]]

Goto(h, rec) ==
  /\ wh' = [wh EXCEPT ![h] = rec]
  /\ UNCHANGED whResp

Throw(h, payload, text) == Goto(h, [pc |-> "catch", payload |-> payload, error |-> text])

\* what follows the inbound branch and the status branch
AfterBranch(h, payload) ==
  IF Len(payload.messages) > 0
  THEN Goto(h, [pc |-> "store", payload |-> payload])
  ELSE IF Len(payload.statuses) > 0
  THEN Goto(h, [pc |-> "status", payload |-> payload, i |-> 1])
  ELSE Respond(h, 200, "ok")

\* a delivery arrives: request.json(), then the first webhook_logs insert
PostWebhook(h, payload, outcome) ==
  /\ wh[h].pc = "idle"
  /\ Len(webhook_logs) + 2 * Cardinality(Busy) + 2 <= MaxLogs
  /\ Len(payload.messages) > 0 =>
       Cardinality(messages)
         + Cardinality({k \in Busy : Len(wh[k].payload.messages) > 0}) < MaxRows
  /\ IF ~payload.parses
     THEN /\ Throw(h, payload, <<"Unexpected token">>)
          /\ UNCHANGED webhook_logs
     ELSE /\ webhook_logs' = LogInsert(LogRow(EventType(payload), payload, FALSE, Null), outcome)
          /\ IF outcome = "throw"
             THEN Throw(h, payload, <<"fetch failed">>)
             ELSE AfterBranch(h, payload)
  /\ UNCHANGED <<env, now, messages, conversations_table, providerReqs, send, sendResp, verifyResp,
                 gate, conversations, error, loading,
                 analytics, page, sending>>

\* storeInboundMessage(body) for the first message entry
StoreInbound(h, outcome) ==
  /\ wh[h].pc = "store"
  /\ LET payload == wh[h].payload IN
     IF ~TimestampValid(payload.messages[1])
     THEN /\ Throw(h, payload, <<"Invalid time value">>)
          /\ UNCHANGED <<messages, conversations_table>>
     ELSE /\ messages' = IF outcome = "ok" THEN InsertMessage(messages, InboundRow(payload))
                         ELSE messages
          /\ conversations_table' =
               IF outcome = "ok"
               THEN AfterInsert(conversations_table, messages, InboundRow(payload))
               ELSE conversations_table
          /\ IF outcome = "throw"
             THEN Throw(h, payload, <<"fetch failed">>)
             ELSE IF InboundStored(payload, outcome)
             THEN Goto(h, [pc |-> "mark", payload |-> payload,
                           event_type |-> <<"message_received">>])
             ELSE Respond(h, 200, "ok")
  /\ UNCHANGED <<env, now, webhook_logs, providerReqs, send, sendResp, verifyResp,
                 gate, conversations, error, loading,
                 analytics, page, sending>>

\* mutant of StatusUpdate: a failed update is thrown and ends the loop
StatusUpdateAborting(h, outcome) ==
  /\ wh[h].pc = "status"
  /\ LET payload == wh[h].payload
         i == wh[h].i
         status == payload.statuses[i]
     IN /\ messages' = IF outcome = "ok"
                       THEN UpdateStatus(messages, status.id, status.status)
                       ELSE messages
        /\ IF outcome # "ok"
           THEN Throw(h, payload, <<"fetch failed">>)
           ELSE IF i < Len(payload.statuses)
           THEN Goto(h, [wh[h] EXCEPT !.i = i + 1])
           ELSE Goto(h, [pc |-> "mark", payload |-> payload,
                         event_type |-> <<"status_update">>])
  /\ UNCHANGED <<env, now, conversations_table, webhook_logs, providerReqs, send,
                 sendResp, verifyResp, gate, conversations, error, loading,
                 analytics, page, sending>>

\* one turn of the loop over statuses: the update of one row's status
StatusUpdate(h, outcome) ==
  /\ wh[h].pc = "status"
  /\ LET payload == wh[h].payload
         i == wh[h].i
         status == payload.statuses[i]
     IN /\ messages' = IF outcome = "ok"
                       THEN UpdateStatus(messages, status.id, status.status)
                       ELSE messages
        /\ IF outcome = "throw"
           THEN Throw(h, payload, <<"fetch failed">>)
           ELSE IF i < Len(payload.statuses)
           THEN Goto(h, [wh[h] EXCEPT !.i = i + 1])
           ELSE Goto(h, [pc |-> "mark", payload |-> payload,
                         event_type |-> <<"status_update">>])
  /\ UNCHANGED <<env, now, conversations_table, webhook_logs, providerReqs, send, sendResp, verifyResp,
                 gate, conversations, error, loading,
                 analytics, page, sending>>

\* the webhook_logs row marking the delivery processed, then 200 {status: 'ok'}
MarkProcessed(h, outcome) ==
  /\ wh[h].pc = "mark"
  /\ webhook_logs' = LogInsert(LogRow(wh[h].event_type, wh[h].payload, TRUE, Null), outcome)
  /\ IF outcome = "throw"
     THEN Throw(h, wh[h].payload, <<"fetch failed">>)
     ELSE Respond(h, 200, "ok")
  /\ UNCHANGED <<env, now, messages, conversations_table, providerReqs, send, sendResp, verifyResp,
                 gate, conversations, error, loading,
                 analytics, page, sending>>

\* the catch block: the error row (its own failure is swallowed), then the answer
CatchError(h, outcome) ==
  /\ wh[h].pc = "catch"
  /\ webhook_logs' = LogInsert(LogRow(<<"error">>, [error |-> wh[h].error], FALSE,
                                      Str(wh[h].error)), outcome)
  /\ Respond(h, CatchStatus, "error")
  /\ UNCHANGED <<env, now, messages, conversations_table, providerReqs, send, sendResp, verifyResp,
                 gate, conversations, error, loading,
                 analytics, page, sending>>

----------------------------------------------------------------------------
(* GET /api/webhook: the verification handshake *)

VerifyModes == {Null, Str(<<"subscribe">>), Str(<<"unsubscribe">>)}
VerifyTokens == {Null, Str(<<>>), Str(<<"secret">>), Str(<<"guess">>)}
Challenges == {Null, Str(<<"1158201444">>)}

\* mutant of TokenMatches: the loose comparison, under which a missing
\* parameter equals an unset variable
TokenMatchesLoosely(token) == LooseEquals(token, env.WEBHOOK_VERIFY_TOKEN)

\* token === process.env.WEBHOOK_VERIFY_TOKEN
TokenMatches(token) == StrictEquals(token, env.WEBHOOK_VERIFY_TOKEN)

GetWebhook(mode, token, challenge) ==
  /\ verifyResp' =
       IF StrictEquals(mode, Str(<<"subscribe">>)) /\ TokenMatches(token)
       THEN [status |-> 200, body |-> challenge]
       ELSE [status |-> 403, body |-> Str(<<"Forbidden">>)]
  /\ UNCHANGED <<env, now, messages, conversations_table, webhook_logs, providerReqs, send, sendResp,
                 wh, whResp, gate, conversations, error, loading,
                 analytics, page, sending>>

----------------------------------------------------------------------------
(* GET /api/check-human: the human-activity gate *)

GatePhones == {Null, Str(<<"1">>), Str(<<"+", "1">>), Str(<<"2", " ">>)}

\* the two reads of Date.now() are this many milliseconds apart
Lags == {0, 1}

\* mutant of HumanRows: automated replies count as human activity
HumanRowsAnyAuthor(rows, phone, since) ==
  {r \in rows : /\ r.phone_number = phone
                /\ r.direction = "outbound"
                /\ r.timestamp >= since}

\* .eq('phone_number', p).eq('direction', 'outbound').eq('is_ai_response', false)
\* .gte('timestamp', since)
HumanRows(rows, phone, since) ==
  {r \in rows : /\ r.phone_number = phone
                /\ r.direction = "outbound"
                /\ r.is_ai_response = FALSE
                /\ r.timestamp >= since}

\* .order('timestamp', {ascending: false}).limit(1)
MostRecent(rows) == CHOOSE r \in rows : \A q \in rows : r.timestamp >= q.timestamp

\* mutant of HoursRemainingMs: the elapsed time is reported
HoursElapsedMs(elapsed) == Max(0, elapsed)

\* Math.max(0, 2 - hoursElapsed), in milliseconds
HoursRemainingMs(elapsed) == Max(0, ThresholdHours * Hour - elapsed)

\* mutant of RoundHundredths: the hours are truncated to whole hours
TruncateToHours(ms) == (ms \div Hour) * 100

\* Math.round(hoursRemaining * 100) / 100, in hundredths of an hour
RoundHundredths(ms) == (ms * 100 * 2 + Hour) \div (2 * Hour)

\* mutant of IsActive: the flag is taken from the rounded value
IsActiveRounded(hoursRemaining) == RoundHundredths(hoursRemaining) > 0

\* humanActive = hoursRemaining > 0, of the value before rounding
IsActive(hoursRemaining) == hoursRemaining > 0

\* the body of the answer, with its HTTP status
GateResponse(status, phoneNumber, active, last, remaining) ==
  [status |-> status, phoneNumber |-> phoneNumber, humanActive |-> active,
   lastHumanResponseTime |-> last, hoursRemaining |-> remaining]

NoGateCall == GateResponse(0, <<>>, FALSE, Null, 0)

\* the answer of the gate for the normalized number clean, the query made at
\* time t and the hours computed lag milliseconds later
checkHumanActive(rows, clean, t, lag) ==
  LET found == HumanRows(rows, clean, t - ThresholdHours * Hour)
      lastMessage == MostRecent(found)
      hoursRemaining == HoursRemainingMs(t + lag - lastMessage.timestamp)
  IN IF found = {}
     THEN [humanActive |-> FALSE, lastHumanResponseTime |-> Null, hoursRemaining |-> 0]
     ELSE [humanActive |-> IsActive(hoursRemaining),
           lastHumanResponseTime |-> Num(lastMessage.timestamp),
           hoursRemaining |-> RoundHundredths(hoursRemaining)]

CheckHuman(phone, lag, outcome) ==
  /\ ClockAllows(lag)
  /\ now' = now + lag
  /\ gate' =
       IF ~Truthy(phone)
       THEN GateResponse(400, <<>>, FALSE, Null, 0)
       ELSE IF outcome # "ok"
       THEN GateResponse(500, <<>>, FALSE, Null, 0)
       ELSE LET r == checkHumanActive(messages, cleanPhone(phone.v), now, lag)
            IN GateResponse(200, cleanPhone(phone.v), r.humanActive,
                            r.lastHumanResponseTime, r.hoursRemaining)
  /\ UNCHANGED <<env, messages, conversations_table, webhook_logs, providerReqs, send, sendResp,
                 wh, whResp, verifyResp, conversations, error, loading,
                 analytics, page, sending>>

----------------------------------------------------------------------------
(* GET /api/messages/fetch and the dashboard's fetchMessages *)

\* getMessages(): .order('timestamp', {ascending: false}); rows of equal
\* timestamp come in an order the store chooses
Orderings(rows) ==
  {s \in [1..Cardinality(rows) -> rows] :
     /\ \A i, j \in DOMAIN s : i # j => s[i] # s[j]
     /\ \A i, j \in DOMAIN s : i < j => s[i].timestamp >= s[j].timestamp}

\* the route's map to the shape the frontend expects
FormatMessage(msg) ==
  [sid |-> msg.message_id,
   from |-> IF msg.direction = "inbound" THEN msg.from_number ELSE msg.to_number,
   to |-> IF msg.direction = "inbound" THEN msg.to_number ELSE msg.from_number,
   body |-> msg.body,
   date_sent |-> msg.timestamp,
   status |-> IF msg.status = "" THEN "delivered" ELSE msg.status,
   direction |-> IF msg.direction = "inbound" THEN "inbound" ELSE "outbound-api",
   message_type |-> msg.message_type,
   is_ai_response |-> msg.is_ai_response]

FormattedMessages(fetched) == [i \in DOMAIN fetched |-> FormatMessage(fetched[i])]

\* the key a message is grouped under
GroupKey(message) ==
  IF message.direction = "inbound"
  THEN RemoveFirst(message.from, "whatsapp:")
  ELSE RemoveFirst(message.to, "whatsapp:")

RECURSIVE KeysInOrder(_)
\* the keys of messageGroups in insertion order (Object.entries; phone
\* numbers are longer than an array index, so no key is reordered)
KeysInOrder(msgs) ==
  IF msgs = <<>> THEN <<>>
  ELSE LET rest == KeysInOrder(SubSeq(msgs, 1, Len(msgs) - 1))
           k == GroupKey(msgs[Len(msgs)])
       IN IF \E i \in DOMAIN rest : rest[i] = k THEN rest ELSE Append(rest, k)

\* mutant of GroupOf: the group is overwritten by each message, not appended to
GroupOfLatest(msgs, k) ==
  LET group == SelectSeq(msgs, LAMBDA m : GroupKey(m) = k)
  IN <<group[Len(group)]>>

\* messageGroups[k] after the loop: the messages of key k, in the order fetched
GroupOf(msgs, k) == SelectSeq(msgs, LAMBDA m : GroupKey(m) = k)

RECURSIVE InsertMessageByDate(_, _)
\* one step of the stable sort by date_sent, most recent first
InsertMessageByDate(sorted, m) ==
  IF sorted = <<>> THEN <<m>>
  ELSE IF Head(sorted).date_sent >= m.date_sent
       THEN <<Head(sorted)>> \o InsertMessageByDate(Tail(sorted), m)
       ELSE <<m>> \o sorted

RECURSIVE SortMessages(_)
\* messages.sort((a, b) => new Date(b.date_sent) - new Date(a.date_sent))
SortMessages(msgs) ==
  IF msgs = <<>> THEN <<>>
  ELSE InsertMessageByDate(SortMessages(SubSeq(msgs, 1, Len(msgs) - 1)), msgs[Len(msgs)])

\* mutant of Conversation: lastMessage is taken from the end of the list
ConversationLastOfList(k, msgs) ==
  LET sortedMessages == SortMessages(msgs)
  IN [phoneNumber |-> k, messages |-> sortedMessages,
      lastMessage |-> sortedMessages[Len(sortedMessages)]]

Conversation(k, msgs) ==
  LET sortedMessages == SortMessages(msgs)
  IN [phoneNumber |-> k, messages |-> sortedMessages, lastMessage |-> sortedMessages[1]]

RECURSIVE InsertConversationByDate(_, _)
InsertConversationByDate(sorted, c) ==
  IF sorted = <<>> THEN <<c>>
  ELSE IF Head(sorted).lastMessage.date_sent >= c.lastMessage.date_sent
       THEN <<Head(sorted)>> \o InsertConversationByDate(Tail(sorted), c)
       ELSE <<c>> \o sorted

RECURSIVE SortConversations(_)
\* .sort((a, b) => new Date(b.lastMessage.date_sent) - new Date(a.lastMessage.date_sent))
SortConversations(cs) ==
  IF cs = <<>> THEN <<>>
  ELSE InsertConversationByDate(SortConversations(SubSeq(cs, 1, Len(cs) - 1)), cs[Len(cs)])

\* conversationList of fetchMessages
ConversationList(msgs) ==
  LET keys == KeysInOrder(msgs)
  IN SortConversations([i \in DOMAIN keys |-> Conversation(keys[i], GroupOf(msgs, keys[i]))])

\* the positions <<i, j>> of the messages of a conversation list
Positions(cs) == UNION {{<<i, j>> : j \in DOMAIN cs[i].messages} : i \in DOMAIN cs}

\* an outbound message of a conversation whose next element in the list
\* (conv.messages[index + 1]) is an inbound one: a response
IsResponse(msgs, j) ==
  /\ msgs[j].direction = "outbound-api"
  /\ j + 1 <= Len(msgs)
  /\ msgs[j + 1].direction = "inbound"

ResponseTime(msgs, j) == msgs[j].date_sent - msgs[j + 1].date_sent

AiWindow == 30000             \* responseTime < 30000 milliseconds

\* calculateAnalytics' classification of conv.messages[j]: counted in aiMessages
CountedAsAi(msgs, j) == IsResponse(msgs, j) /\ ResponseTime(msgs, j) < AiWindow

\* mutant of CountedAsHuman: business-initiated messages are not counted
CountedAsHumanRepliesOnly(msgs, j) ==
  IsResponse(msgs, j) /\ ~CountedAsAi(msgs, j)

\* counted in humanMessages
CountedAsHuman(msgs, j) ==
  msgs[j].direction = "outbound-api" /\ ~CountedAsAi(msgs, j)

RECURSIVE TotalResponseTime(_, _)
TotalResponseTime(cs, ps) ==
  IF ps = {} THEN 0
  ELSE LET q == CHOOSE q \in ps : TRUE
       IN ResponseTime(cs[q[1]].messages, q[2]) + TotalResponseTime(cs, ps \ {q})

\* calculateAnalytics(conversations): the value given to setAnalytics
\* (avgResponseTime in whole milliseconds)
calculateAnalytics(cs) ==
  LET ps == Positions(cs)
      responses == {q \in ps : IsResponse(cs[q[1]].messages, q[2])}
  IN [totalConversations |-> Len(cs),
      totalMessages |-> Cardinality(ps),
      aiMessages |-> Cardinality({q \in ps : CountedAsAi(cs[q[1]].messages, q[2])}),
      humanMessages |-> Cardinality({q \in ps : CountedAsHuman(cs[q[1]].messages, q[2])}),
      avgResponseTime |-> IF responses # {}
                          THEN TotalResponseTime(cs, responses) \div Cardinality(responses)
                          ELSE 0,
      messagesLast24h |->
        Cardinality({q \in ps : cs[q[1]].messages[q[2]].date_sent > now - 24 * Hour}),
      messagesLast7d |->
        Cardinality({q \in ps : cs[q[1]].messages[q[2]].date_sent > now - 7 * 24 * Hour})]

\* fetchMessages from the answer of GET /api/messages/fetch on: the grouping,
\* setConversations, calculateAnalytics.  (The page's other state is left
\* to the caller.)
fetchMessages(fetched, outcome) ==
  /\ IF outcome = "ok"
     THEN /\ conversations' = ConversationList(FormattedMessages(fetched))
          /\ analytics' = calculateAnalytics(conversations')
          /\ error' = Null
     ELSE /\ error' = Str(<<"Failed to fetch messages">>)
          /\ UNCHANGED <<conversations, analytics>>
  /\ loading' = FALSE
  /\ UNCHANGED <<env, now, messages, conversations_table, webhook_logs, providerReqs, send, sendResp,
                 wh, whResp, verifyResp, gate>>

\* mutant of isOutside24HourWindow: a message exactly 24 hours old counts
isOutsideFrom24Hours(conversation) ==
  /\ conversation.lastMessage.direction = "inbound"
  /\ now - conversation.lastMessage.date_sent >= 24 * Hour

\* isOutside24HourWindow(conversation), evaluated when the list is rendered
isOutside24HourWindow(conversation) ==
  /\ conversation.lastMessage.direction = "inbound"
  /\ now - conversation.lastMessage.date_sent > 24 * Hour

Reverse(msgs) == [j \in DOMAIN msgs |-> msgs[Len(msgs) + 1 - j]]

\* allMessages.indexOf(message): the first position holding the message
IndexOf(msgs, message) ==
  CHOOSE j \in DOMAIN msgs : msgs[j] = message /\ \A k \in 1..j - 1 : msgs[k] # message

\* isAIMessage(message, allMessages, index), index counted from 1
isAIMessage(message, allMessages, index) ==
  /\ message.direction = "outbound-api"
  /\ index + 1 <= Len(allMessages)
  /\ allMessages[index + 1].direction = "inbound"
  /\ message.date_sent - allMessages[index + 1].date_sent < AiWindow

\* the chat view's label of a message of the selected conversation: the
\* list is reversed (oldest first) and the message looked up in it
ShownAsAi(conversation, message) ==
  LET shown == Reverse(conversation.messages)
  IN isAIMessage(message, shown, IndexOf(shown, message))

----------------------------------------------------------------------------
(* The dashboard page: refreshes in flight, the selection, sendMessage *)

MaxRefreshes == 2   \* calls of fetchMessages the page makes in a run

\* what the user types into the message box
Texts == {<<>>, <<" ">>, <<"hi">>}

RECURSIVE TrimStart(_)
TrimStart(s) ==
  IF s # <<>> /\ Head(s) \in Whitespace THEN TrimStart(Tail(s)) ELSE s

\* newMessage.trim()
Trim(s) == Reverse(TrimStart(Reverse(TrimStart(s))))

\* a call of fetchMessages whose request the server has answered from the
\* store (fetched: the rows in the order read) or failed
Refresh(origin, fetched, outcome) ==
  [origin |-> origin, outcome |-> outcome,
   fetched |-> IF outcome = "ok" THEN fetched ELSE <<>>, arrived |-> FALSE]

InFlight == {i \in DOMAIN refreshes : ~refreshes[i].arrived}

\* the interval's or the Refresh button's call of fetchMessages: GET
\* /api/messages/fetch reads the store; the answer is on its way
StartRefresh(fetched, outcome) ==
  /\ Len(refreshes) < MaxRefreshes
  /\ refreshes' = Append(refreshes, Refresh("poll", fetched, outcome))
  /\ UNCHANGED <<env, now, messages, conversations_table, webhook_logs, providerReqs, send, sendResp,
                 wh, whResp, verifyResp, gate, conversations, error, loading,
                 analytics, selectedConversation, newMessage, sending,
                 autoRefresh, intervals>>

\* the answer of a call of fetchMessages arrives, in any order; the call
\* made by sendMessage ends with setSending(false)
ArriveRefresh(i) ==
  /\ i \in InFlight
  /\ fetchMessages(refreshes[i].fetched, refreshes[i].outcome)
  /\ refreshes' = [refreshes EXCEPT ![i].arrived = TRUE]
  /\ sending' = IF refreshes[i].origin = "send" THEN FALSE ELSE sending
  /\ UNCHANGED <<selectedConversation, newMessage, autoRefresh, intervals>>

\* onClick={() => setSelectedConversation(conversation)} on an entry of the
\* list (filter 'all', no search term: the list is `conversations`)
SelectConversation(i) ==
  /\ ~loading
  /\ i \in DOMAIN conversations
  /\ selectedConversation' = conversations[i]
  /\ UNCHANGED <<env, now, messages, conversations_table, webhook_logs, providerReqs, send, sendResp,
                 wh, whResp, verifyResp, gate, conversations, error, loading,
                 analytics, newMessage, sending, refreshes,
                 autoRefresh, intervals>>

\* onChange of the message box (rendered for a selected conversation,
\* disabled while sending)
TypeMessage(text) ==
  /\ ~loading
  /\ selectedConversation # Null
  /\ ~sending
  /\ newMessage' = text
  /\ UNCHANGED <<env, now, messages, conversations_table, webhook_logs, providerReqs, send, sendResp,
                 wh, whResp, verifyResp, gate, conversations, error, loading,
                 analytics, selectedConversation, sending, refreshes,
                 autoRefresh, intervals>>

\* sendMessage up to the request: the guard, setSending(true), POST
\* /api/messages/send with {to, body}
SendMessage(data, fetched) ==
  /\ ~loading
  /\ selectedConversation # Null
  /\ Trim(newMessage) # <<>>
  /\ ~sending
  /\ sending' = TRUE
  /\ PostSend(Str(selectedConversation.phoneNumber), Str(Trim(newMessage)),
              Undefined, data, fetched)

\* sendMessage when the page's fetch of /api/messages/send rejects (the route
\* is not reached): what the catch block is given in place of an answer
SendMessageUnreachable ==
  /\ ~loading
  /\ selectedConversation # Null
  /\ Trim(newMessage) # <<>>
  /\ ~sending
  /\ send.pc = "idle"
  /\ sending' = TRUE
  /\ sendResp' = Response(0, FALSE, Str(<<"Failed to fetch">>))
  /\ UNCHANGED <<env, now, messages, conversations_table, webhook_logs, providerReqs,
                 send, wh, whResp, verifyResp, gate, conversations, error, loading,
                 analytics, page>>

\* the route's answer has not been taken up by sendMessage yet
AwaitingAnswer ==
  /\ sending
  /\ send.pc = "idle"
  /\ \A i \in InFlight : refreshes[i].origin # "send"

\* mutant of SendMessageAnswered: the draft is cleared before the answer is
\* looked at
SendMessageAnsweredClearing(fetched, outcome) ==
  /\ AwaitingAnswer
  /\ newMessage' = <<>>
  /\ IF sendResp.status = 200
     THEN /\ Len(refreshes) < MaxRefreshes
          /\ error' = Null
          /\ refreshes' = Append(refreshes, Refresh("send", fetched, outcome))
          /\ UNCHANGED sending
     ELSE /\ error' = IF Truthy(sendResp.error) THEN sendResp.error
                      ELSE Str(<<"Failed to send message">>)
          /\ sending' = FALSE
          /\ UNCHANGED refreshes
  /\ UNCHANGED <<env, now, messages, conversations_table, webhook_logs, providerReqs, send, sendResp,
                 wh, whResp, verifyResp, gate, conversations, loading,
                 analytics, selectedConversation, autoRefresh, intervals>>

\* sendMessage from the route's answer on: on success setNewMessage(''),
\* setError(null) and the call of fetchMessages; otherwise setError and
\* setSending(false)
SendMessageAnswered(fetched, outcome) ==
  /\ AwaitingAnswer
  /\ IF sendResp.status = 200
     THEN /\ Len(refreshes) < MaxRefreshes
          /\ newMessage' = <<>>
          /\ error' = Null
          /\ refreshes' = Append(refreshes, Refresh("send", fetched, outcome))
          /\ UNCHANGED sending
     ELSE /\ error' = IF Truthy(sendResp.error) THEN sendResp.error
                      ELSE Str(<<"Failed to send message">>)
          /\ sending' = FALSE
          /\ UNCHANGED <<newMessage, refreshes>>
  /\ UNCHANGED <<env, now, messages, conversations_table, webhook_logs, providerReqs, send, sendResp,
                 wh, whResp, verifyResp, gate, conversations, loading,
                 analytics, selectedConversation, autoRefresh, intervals>>

----------------------------------------------------------------------------
(* The page's polling timer *)

PollEvery == 5000   \* setInterval(fetchMessages, 5000), in milliseconds
MaxPolls == 3       \* the page's clock stops after this many periods

\* before the effects of the first render have run: fetchMessages has not
\* been called yet
Unmounted == loading /\ refreshes = <<>>

\* mutant of ClearInterval: the effect returns no cleanup
ClearIntervalMissing(timers) == timers

\* return () => clearInterval(interval): the cleanup React runs before the
\* effect runs again
ClearInterval(timers) == {}

\* the body of useEffect(..., [autoRefresh]): no timer when autoRefresh is
\* off, else one that is first due a period from now
SetInterval(on) == IF on THEN {now + PollEvery} ELSE {}

\* the effects of the first render: fetchMessages() and the polling effect
Mount(fetched, outcome) ==
  /\ Unmounted
  /\ refreshes' = <<Refresh("mount", fetched, outcome)>>
  /\ intervals' = SetInterval(autoRefresh)
  /\ UNCHANGED <<env, now, messages, conversations_table, webhook_logs, providerReqs,
                 send, sendResp, wh, whResp, verifyResp, gate, conversations, error,
                 loading, analytics, selectedConversation, newMessage, sending,
                 autoRefresh>>

\* onClick={() => setAutoRefresh(!autoRefresh)}, and with the render that
\* follows the cleanup of the polling effect and its next run
ToggleAutoRefresh ==
  /\ ~loading
  /\ autoRefresh' = ~autoRefresh
  /\ intervals' = ClearInterval(intervals) \cup SetInterval(~autoRefresh)
  /\ UNCHANGED <<env, now, messages, conversations_table, webhook_logs, providerReqs,
                 send, sendResp, wh, whResp, verifyResp, gate, conversations, error,
                 loading, analytics, selectedConversation, newMessage, sending,
                 refreshes>>

\* a timer is due: its call of fetchMessages, and the timer is due again a
\* period later
IntervalFires(fetched, outcome) ==
  /\ now \in intervals
  /\ Len(refreshes) < MaxRefreshes
  /\ refreshes' = Append(refreshes, Refresh("poll", fetched, outcome))
  /\ intervals' = (intervals \ {now}) \cup {now + PollEvery}
  /\ UNCHANGED <<env, now, messages, conversations_table, webhook_logs, providerReqs,
                 send, sendResp, wh, whResp, verifyResp, gate, conversations, error,
                 loading, analytics, selectedConversation, newMessage, sending,
                 autoRefresh>>

\* time passes on the page, up to the time the next timer is due
Wait(d) ==
  /\ ~Unmounted
  /\ now + d <= MaxPolls * PollEvery
  /\ \A due \in intervals : now + d <= due
  /\ now' = now + d
  /\ UNCHANGED <<env, messages, conversations_table, webhook_logs, providerReqs, send,
                 sendResp, wh, whResp, verifyResp, gate, conversations, error,
                 loading, analytics, page, sending>>

----------------------------------------------------------------------------
(* The system *)

InitWith(envs) ==
  /\ env \in envs
  /\ now = 0
  /\ messages = {}
  /\ webhook_logs = <<>>
  /\ providerReqs = {}
  /\ send = SendIdle
  /\ sendResp = Response(0, FALSE, Undefined)
  /\ wh = [h \in Slots |-> WhIdle]
  /\ whResp = [h \in Slots |-> NoResponse]
  /\ verifyResp = [status |-> 0, body |-> Null]
  /\ gate = NoGateCall
  /\ conversations = <<>>
  /\ error = Null
  /\ loading = TRUE
  /\ analytics = Null
  /\ selectedConversation = Null
  /\ newMessage = <<>>
  /\ sending = FALSE
  /\ refreshes = <<>>
  /\ autoRefresh = TRUE
  /\ intervals = {}
  /\ conversations_table = {}

Init == InitWith(Envs)

Ticking(steps) == \E d \in steps : Tick(d)

\* requests to POST /api/messages/send of other clients than the page (taken
\* while the page has none outstanding), the provider's answers to them and
\* the outcomes of the insert, drawn from the given sets
Sending(tos, bodies, flags, datas, nets, outcomes) ==
  \/ \E to \in tos, body \in bodies, isAiResponse \in flags,
        data \in datas, fetched \in nets :
       ~sending /\ PostSend(to, body, isAiResponse, data, fetched) /\ UNCHANGED sending
  \/ \E outcome \in outcomes : SendInsert(outcome)

\* deliveries to POST /api/webhook on the given slots
Delivering(slots, payloads, outcomes) ==
  \/ \E h \in slots, payload \in payloads, outcome \in outcomes :
       PostWebhook(h, payload, outcome)
  \/ \E h \in slots, outcome \in outcomes : StoreInbound(h, outcome)
  \/ \E h \in slots, outcome \in outcomes : StatusUpdate(h, outcome)
  \/ \E h \in slots, outcome \in outcomes : MarkProcessed(h, outcome)
  \/ \E h \in slots, outcome \in outcomes : CatchError(h, outcome)

Verifying ==
  \E mode \in VerifyModes, token \in VerifyTokens, challenge \in Challenges :
    GetWebhook(mode, token, challenge)

Gating(phones, lags, outcomes) ==
  \E phone \in phones, lag \in lags, outcome \in outcomes :
    CheckHuman(phone, lag, outcome)

Refreshing(outcomes) ==
  \E fetched \in Orderings(messages), outcome \in outcomes :
    fetchMessages(fetched, outcome) /\ UNCHANGED <<page, sending>>

\* the page: refreshes whose answers arrive in any order, the selection,
\* the message box and sendMessage
Paging(datas, nets, outcomes) ==
  \/ \E fetched \in Orderings(messages), outcome \in outcomes :
       StartRefresh(fetched, outcome)
  \/ \E i \in DOMAIN refreshes : ArriveRefresh(i)
  \/ \E i \in DOMAIN conversations : SelectConversation(i)
  \/ \E text \in Texts : TypeMessage(text)
  \/ \E data \in datas, fetched \in nets : SendMessage(data, fetched)
  \/ SendMessageUnreachable
  \/ \E fetched \in Orderings(messages), outcome \in outcomes :
       SendMessageAnswered(fetched, outcome)

\* the page's timer: its start at mount, the toggle, its firing and the
\* passing of time by the given steps
Polling(outcomes, steps) ==
  \/ \E fetched \in Orderings(messages), outcome \in outcomes : Mount(fetched, outcome)
  \/ ToggleAutoRefresh
  \/ \E fetched \in Orderings(messages), outcome \in outcomes :
       IntervalFires(fetched, outcome)
  \/ \E d \in steps : Wait(d)

Next ==
  \/ Ticking(Steps)
  \/ Sending(SendTos, SendBodies, SendFlags, ProviderResponses, BOOLEAN, StoreOutcomes)
  \/ Delivering(Slots, Payloads, StoreOutcomes)
  \/ Verifying
  \/ Gating(GatePhones, Lags, StoreOutcomes)
  \/ Refreshing(StoreOutcomes)
  \/ Paging(ProviderResponses, BOOLEAN, StoreOutcomes)
  \/ Polling(StoreOutcomes, {PollEvery \div 2, PollEvery})

Spec == Init /\ [][Next]_vars

\* The webhook receiver: concurrent deliveries of an inbound message, of a
\* status update and of a body that is no JSON (and, in SpecWebhook, of a
\* message without a timestamp).
WebhookPayloads ==
  {Payload(FALSE, Undefined, <<>>, <<>>),
   Payload(TRUE, Str(<<"messages">>), <<MsgA>>, <<>>),
   Payload(TRUE, Str(<<"messages">>), <<>>, <<StDelivered1>>)}

NextWebhook ==
  Delivering(Slots,
             WebhookPayloads \cup {Payload(TRUE, Str(<<"messages">>), <<MsgNoTime>>, <<>>)},
             StoreOutcomes)

SpecWebhook == InitWith({EnvConfigured}) /\ [][NextWebhook]_vars

\* The verification handshake, next to deliveries that write to the store.
NextVerify == Verifying \/ Delivering({1}, WebhookPayloads, {"ok"})

SpecVerify == Init /\ [][NextVerify]_vars

\* The gate over what sends and deliveries have stored, with the clock:
\* accepted sends, human and automated, to two counterparties.
GateTos == {Str(<<"+", "1">>), Str(<<"2">>)}
GateFlags == {Undefined, Bool(TRUE)}
IssuedIds == {d \in ProviderResponses : d.ok /\ Truthy(d.id)}

NextGate ==
  \/ Ticking(Steps)
  \/ Sending(GateTos, {Str(<<"hi">>)}, GateFlags, IssuedIds, {TRUE}, {"ok"})
  \/ Gating(GatePhones, Lags, StoreOutcomes)

SpecGate == InitWith({EnvConfigured}) /\ [][NextGate]_vars

\* The gate over inbound and outbound rows, the clock going by whole hours.
NextWindow ==
  \/ Ticking({Hour})
  \/ Sending(GateTos, {Str(<<"hi">>)}, GateFlags, IssuedIds, {TRUE}, {"ok"})
  \/ Delivering({1}, WebhookPayloads, {"ok"})
  \/ Gating({Str(<<"+", "1">>)}, {0}, {"ok"})

SpecWindow == InitWith({EnvConfigured}) /\ [][NextWindow]_vars

\* The gate near the end of the window: a human reply and calls of the gate
\* up to a millisecond before and after the two hours are over.
WindowSteps == {1, Hour - 1, Hour}

NextRound ==
  \/ Ticking(WindowSteps)
  \/ Sending({Str(<<"+", "1">>)}, {Str(<<"hi">>)}, GateFlags, IssuedIds, {TRUE}, {"ok"})
  \/ Gating({Str(<<"+", "1">>)}, Lags, {"ok"})

SpecRound == InitWith({EnvConfigured}) /\ [][NextRound]_vars

\* The provider client: every request, every answer of the provider and
\* every outcome of the insert, sends within the same millisecond included.
SendEnvs ==
  {EnvConfigured,
   [EnvConfigured EXCEPT !.WHATSAPP_ACCESS_TOKEN = Undefined],
   [EnvConfigured EXCEPT !.WHATSAPP_PHONE_NUMBER_ID = Undefined]}
SomeTos == {Undefined, Str(<<>>), Str(<<"+", "1">>)}

NextSend ==
  \/ Ticking({1})
  \/ Sending(SomeTos, SendBodies, GateFlags, ProviderResponses, BOOLEAN, StoreOutcomes)

SpecSend == InitWith(SendEnvs) /\ [][NextSend]_vars

\* The dashboard's read path over what sends and deliveries have stored.
NextDashboard ==
  \/ Sending(GateTos, {Str(<<"hi">>)}, GateFlags, IssuedIds, {TRUE}, {"ok"})
  \/ Delivering({1}, WebhookPayloads, {"ok"})
  \/ Refreshing(ReportedOutcomes)

SpecDashboard == InitWith({EnvConfigured}) /\ [][NextDashboard]_vars

\* The page in use: deliveries arrive, the list is refreshed, a conversation
\* selected, a reply typed and sent, refreshes overlapping.
NextPage ==
  \/ Delivering({1}, WebhookPayloads, {"ok"})
  \/ \E outcome \in {"ok"} : SendInsert(outcome)
  \/ Paging(IssuedIds, {TRUE}, {"ok"})

SpecPage == InitWith({EnvConfigured}) /\ [][NextPage]_vars

\* The read path as a function of the store: the store holds any rows that
\* deliveries and sends can have left in it (inbound rows of a counterparty,
\* outbound rows to one, sent within 30 seconds of each other), and the
\* page is looked at about a day later.
MaxStored == 2      \* rows in the store

StoredTimes == {0, AiWindow - 1, AiWindow}
Nows == {23 * Hour, 24 * Hour, 25 * Hour}
Parties == {<<"1">>, <<"2">>}

\* the row storeInboundMessage (direction inbound) or sendWhatsAppMessage
\* (direction outbound) stores, as the k-th row of the store
StoredRow(k, direction, phone, ts) ==
  [id |-> k,
   message_id |-> <<"wamid.", k>>,
   phone_number |-> phone,
   from_number |-> IF direction = "inbound" THEN phone ELSE EnvConfigured.WHATSAPP_PHONE_NUMBER_ID.v,
   to_number |-> IF direction = "inbound" THEN EnvConfigured.WHATSAPP_PHONE_NUMBER_ID.v ELSE phone,
   body |-> <<"hi">>,
   direction |-> direction,
   status |-> IF direction = "inbound" THEN "received" ELSE "sent",
   timestamp |-> ts,
   message_type |-> "text",
   is_ai_response |-> FALSE]

Shapes == {"inbound", "outbound"} \X Parties \X StoredTimes

\* one store per multiset of rows: the k-th row is no older than the one
\* before it, and the rows of one time come in one order
ShapeRank(sh) ==
  (IF sh[1] = "inbound" THEN 0 ELSE 1) + (IF sh[2] = <<"1">> THEN 0 ELSE 2)

InOrder(f) ==
  \A k \in DOMAIN f : k > 1 =>
    \/ f[k - 1][3] < f[k][3]
    \/ f[k - 1][3] = f[k][3] /\ ShapeRank(f[k - 1]) <= ShapeRank(f[k])

StoresOf(shapes) ==
  UNION {{{StoredRow(k, f[k][1], f[k][2], f[k][3]) : k \in 1..n} :
            f \in {g \in [1..n -> shapes] : InOrder(g)}} :
         n \in 0..MaxStored}

InitStoredIn(stores) ==
  /\ env = EnvConfigured
  /\ now \in Nows
  /\ messages \in stores
  /\ conversations_table = SummaryOf(messages)
  /\ webhook_logs = <<>>
  /\ providerReqs = {}
  /\ send = SendIdle
  /\ sendResp = Response(0, FALSE, Undefined)
  /\ wh = [h \in Slots |-> WhIdle]
  /\ whResp = [h \in Slots |-> NoResponse]
  /\ verifyResp = [status |-> 0, body |-> Null]
  /\ gate = NoGateCall
  /\ conversations = <<>>
  /\ error = Null
  /\ loading = TRUE
  /\ analytics = Null
  /\ selectedConversation = Null
  /\ newMessage = <<>>
  /\ sending = FALSE
  /\ refreshes = <<>>
  /\ autoRefresh = TRUE
  /\ intervals = {}

InitStored == InitStoredIn(StoresOf(Shapes))

NextStored ==
  \/ Refreshing(ReportedOutcomes)
  \/ \E i \in DOMAIN conversations : SelectConversation(i)

SpecStored == InitStored /\ [][NextStored]_vars

\* The rollup over stores in which one conversation holds both directions:
\* the page files every outbound row under the business's own number, and so
\* does it an inbound row whose sender is that number.
EchoShapes ==
  ({"inbound"} \X {<<"1">>, EnvConfigured.WHATSAPP_PHONE_NUMBER_ID.v} \X StoredTimes)
  \cup ({"outbound"} \X {<<"1">>} \X StoredTimes)

SpecRollup == InitStoredIn(StoresOf(EchoShapes)) /\ [][NextStored]_vars

\* Deliveries of status updates and of inbound messages over the row a send
\* has stored; a store operation succeeds or returns {error}. No row has the
\* message_id wamid.2.
DeliveryPayloads ==
  {Payload(FALSE, Undefined, <<>>, <<>>),
   Payload(TRUE, Str(<<"messages">>), <<>>, <<StDelivered1, StRead1>>),
   Payload(TRUE, Str(<<"messages">>), <<>>, <<StRead2, StRead1>>),
   Payload(TRUE, Str(<<"messages">>), <<MsgA>>, <<StRead1>>),
   Payload(TRUE, Str(<<"messages">>), <<MsgC, MsgA>>, <<>>)}

NextDelivery ==
  \/ Sending({Str(<<"2">>)}, {Str(<<"hi">>)}, {Undefined},
             {d \in IssuedIds : d.id = Str(<<"wamid.1">>)}, {TRUE}, {"ok"})
  \/ Delivering({1}, DeliveryPayloads, ReportedOutcomes)

SpecDelivery == InitWith({EnvConfigured}) /\ [][NextDelivery]_vars

\* Deliveries of one inbound message of every type, with a text or caption that
\* is absent, empty or present.
TypedPayloads ==
  {Payload(TRUE, Str(<<"messages">>),
           <<Entry(<<"wamid.A">>, <<"1">>, Num(0), type, content)>>, <<>>) :
     type \in {"text", "image", "video", "audio", "document", "sticker"},
     content \in {Undefined, Str(<<>>), Str(<<"cap">>)}}

NextBody ==
  Delivering({1},
             TypedPayloads \cup {Payload(FALSE, Undefined, <<>>, <<>>),
                                 Payload(TRUE, Str(<<"messages">>), <<>>, <<StRead1>>)},
             {"ok"})

SpecBody == InitWith({EnvConfigured}) /\ [][NextBody]_vars

\* The page sending a reply to a stored inbound message: the provider
\* accepts or refuses it, or the request does not reach the provider or
\* the route.
NextDraft ==
  \/ \E outcome \in {"ok"} : SendInsert(outcome)
  \/ Paging({d \in ProviderResponses :
              d.id = Str(<<"wamid.1">>) \/ d.errorMessage = Str(<<"Invalid", " ", "token">>)},
            BOOLEAN, ReportedOutcomes)

SpecDraft ==
  InitStoredIn({{StoredRow(1, "inbound", <<"1">>, 0)}}) /\ [][NextDraft]_vars

\* The page left open: the timer set at mount, toggled, firing.
NextPolling ==
  \/ Polling(ReportedOutcomes, {PollEvery \div 2, PollEvery})
  \/ \E i \in DOMAIN refreshes : ArriveRefresh(i)

SpecPolling == InitWith({EnvConfigured}) /\ [][NextPolling]_vars

----------------------------------------------------------------------------
(* Claims *)

RowsWithId(rows, id) == {r \in rows : r.message_id = id}

\* the webhook_logs rows written on arrival of a delivery of the payload
ArrivalLogs(payload) ==
  {i \in DOMAIN webhook_logs :
     /\ ~webhook_logs[i].processed
     /\ webhook_logs[i].event_type # <<"error">>
     /\ webhook_logs[i].payload = payload}

\* C1: however often and however concurrently an inbound message_id is
\* delivered, the store never holds two rows with that message_id, and once
\* the store has executed the insert of a delivery it holds exactly one.
C1_OneRowPerMessageId ==
  [][/\ \A id \in MessageIds(messages') : Cardinality(RowsWithId(messages', id)) = 1
     /\ \A h \in Slots :
          (wh[h].pc = "store" /\ StoreInbound(h, "ok")
             /\ TimestampValid(wh[h].payload.messages[1]))
          => Cardinality(RowsWithId(messages', wh[h].payload.messages[1].id)) = 1
     /\ \A r \in messages : \E q \in messages' : q.id = r.id /\ q.message_id = r.message_id
    ]_vars

\* C1 witness: the same inbound message was delivered twice, both deliveries
\* are finished, and one row holds its message_id
C1_Witness ==
  /\ \A h \in Slots : wh[h].pc = "idle"
  /\ \E payload \in WebhookPayloads :
       /\ Len(payload.messages) > 0
       /\ Cardinality(ArrivalLogs(payload)) >= 2
       /\ Cardinality(RowsWithId(messages, payload.messages[1].id)) = 1

\* C2: every answer of POST /api/webhook has status 200 and a body whose
\* status is "ok" or "error"
C2_AlwaysAcknowledged ==
  \A h \in Slots :
    whResp[h] # NoResponse => whResp[h].status = 200 /\ whResp[h].body \in {"ok", "error"}

\* C2 witness: a delivery whose processing threw was answered 200 "error",
\* and its error row is in webhook_logs
C2_Witness ==
  /\ \E h \in Slots : whResp[h] = [status |-> 200, body |-> "error"]
  /\ \E i \in DOMAIN webhook_logs : webhook_logs[i].event_type = <<"error">>

\* C3: every sendWhatsAppMessage that returns success has added exactly one
\* row, outbound, with status sent and is_ai_response as asked, also when
\* the id is the locally generated one.  (Stated for a store that executes
\* the insert; the code fails it.)
C3_ExactlyOneRowPerSuccess ==
  [][(send.pc = "insert" /\ SendInsert("ok")) =>
       \E row \in messages' :
         /\ row \notin messages
         /\ messages' = messages \cup {row}
         /\ row.direction = "outbound"
         /\ row.status = "sent"
         /\ row.is_ai_response = send.isAiResponse
    ]_vars

ConversationKeys(cs) == {cs[i].phoneNumber : i \in DOMAIN cs}

\* C4: after a refresh every stored message exchanged with a counterparty
\* is in the conversation keyed by that counterparty, and no two
\* conversations have the same key.  (The code fails it.)
C4_OneConversationPerCounterparty ==
  [][\A fetched \in Orderings(messages) :
       fetchMessages(fetched, "ok") =>
         /\ \A r \in messages :
              \E i \in DOMAIN conversations' :
                /\ conversations'[i].phoneNumber = r.phone_number
                /\ \E j \in DOMAIN conversations'[i].messages :
                     conversations'[i].messages[j].sid = r.message_id
         /\ Cardinality(ConversationKeys(conversations')) = Len(conversations')
    ]_vars

Counterparties == {<<"1">>, <<"2">>}

\* the non-automated outbound rows of a counterparty
HumanOutbound(rows, c) ==
  {r \in rows : r.phone_number = c /\ r.direction = "outbound" /\ ~r.is_ai_response}

\* hoursRemaining as a call made now reports it, in hundredths of an hour
Reported(rows, c, t) == checkHumanActive(rows, c, t, 0).hoursRemaining

\* C5 as written: with no new human outbound message, a later call reports
\* strictly less than an earlier one, or both report 0
C5_StrictlyDecreases ==
  [][\A c \in Counterparties :
       (HumanOutbound(messages', c) = HumanOutbound(messages, c) /\ now' > now)
       => \/ Reported(messages', c, now') < Reported(messages, c, now)
          \/ Reported(messages', c, now') = 0 /\ Reported(messages, c, now) = 0
    ]_vars

\* C5 amended: with no new human outbound message the reported
\* hoursRemaining never increases, and it is strictly smaller once 36
\* seconds (a hundredth of an hour) have passed, unless it was 0
C5_NeverIncreases ==
  [][\A c \in Counterparties :
       HumanOutbound(messages', c) = HumanOutbound(messages, c)
       => /\ Reported(messages', c, now') <= Reported(messages, c, now)
          /\ (now' - now >= Hour \div 100 /\ Reported(messages, c, now) > 0)
               => Reported(messages', c, now') < Reported(messages, c, now)
    ]_vars

\* C5 witness: the gate reported hours remaining for a counterparty, no human
\* reply has been stored since, and a call made now would report less
C5_Witness ==
  /\ gate.status = 200
  /\ gate.hoursRemaining > 0
  /\ \A r \in HumanOutbound(messages, gate.phoneNumber) :
       r.timestamp <= gate.lastHumanResponseTime.v
  /\ Reported(messages, gate.phoneNumber, now) < gate.hoursRemaining

\* the outbound rows of a counterparty
Outbound(rows, c) == {r \in rows : r.phone_number = c /\ r.direction = "outbound"}

\* C6: with one human outbound message at T and no other outbound message
\* to the counterparty, a call at T+1h answers active with 1.0 hours
\* remaining and a call at T+3h answers inactive with 0
C6_OneHourAndThreeHours ==
  [][\A phone \in GatePhones, lag \in Lags :
       (Truthy(phone) /\ CheckHuman(phone, lag, "ok")) =>
         \A r \in messages :
           (Outbound(messages, cleanPhone(phone.v)) = {r} /\ ~r.is_ai_response) =>
             /\ now = r.timestamp + Hour =>
                  gate'.humanActive /\ gate'.hoursRemaining = 100
             /\ now = r.timestamp + 3 * Hour =>
                  ~gate'.humanActive /\ gate'.hoursRemaining = 0
    ]_vars

\* C6 witness: the gate answered active with 1.0 hours remaining for the
\* only outbound message of a counterparty, a human one
C6_Witness ==
  /\ gate.status = 200 /\ gate.humanActive /\ gate.hoursRemaining = 100
  /\ \E r \in messages :
       /\ Outbound(messages, gate.phoneNumber) = {r}
       /\ ~r.is_ai_response
       /\ gate.lastHumanResponseTime = Num(r.timestamp)

\* C7: the gate answers inactive, 0 hours and no last response time
\* whenever the store holds no human outbound row of the normalized number
\* within the trailing two hours
C7_InactiveWithoutHumanReply ==
  [][\A phone \in GatePhones, lag \in Lags :
       (/\ Truthy(phone)
        /\ CheckHuman(phone, lag, "ok")
        /\ ~\E r \in messages :
             /\ r.phone_number = cleanPhone(phone.v)
             /\ r.direction = "outbound"
             /\ r.is_ai_response = FALSE
             /\ r.timestamp >= now - ThresholdHours * Hour)
       => /\ ~gate'.humanActive
          /\ gate'.hoursRemaining = 0
          /\ gate'.lastHumanResponseTime = Null
    ]_vars

\* C7 witness: the gate answered inactive for a counterparty of which the
\* store holds an inbound message and an automated reply within the window,
\* while another counterparty has a human reply within the window
C7_Witness ==
  /\ gate = GateResponse(200, <<"1">>, FALSE, Null, 0)
  /\ \E r \in messages :
       r.phone_number = <<"1">> /\ r.direction = "inbound"
         /\ r.timestamp >= now - ThresholdHours * Hour
  /\ \E r \in messages :
       r.phone_number = <<"1">> /\ r.direction = "outbound" /\ r.is_ai_response
         /\ r.timestamp >= now - ThresholdHours * Hour
  /\ \E r \in HumanOutbound(messages, <<"2">>) :
       r.timestamp >= now - ThresholdHours * Hour

\* C8: when the provider answers a send with a non-success status no
\* Message row is written and none is pending, and the route answers with an
\* error status whose text is the provider's message when it gave one
C8_ProviderFailureSurfaced ==
  [][\A to \in {x \in SendTos : Truthy(x)}, body \in {x \in SendBodies : Truthy(x)},
        data \in {d \in ProviderResponses : ~d.ok} :
       (/\ send.pc = "idle"
        /\ Truthy(env.WHATSAPP_PHONE_NUMBER_ID)
        /\ Truthy(env.WHATSAPP_ACCESS_TOKEN)
        /\ PostSend(to, body, Undefined, data, TRUE))
       => /\ messages' = messages
          /\ send'.pc = "idle"
          /\ sendResp'.status >= 400
          /\ ~sendResp'.success
          /\ Truthy(data.errorMessage) => sendResp'.error = data.errorMessage
    ]_vars

\* C8 witness: a send was answered 500 with the provider's message
C8_Witness ==
  /\ sendResp = Response(500, FALSE, Str(<<"Invalid", " ", "token">>))
  /\ \E q \in providerReqs : q.body = <<"hi">>

\* C9: a send whose body text or recipient is empty or missing is answered
\* 400, and neither the provider nor the store sees anything of it
C9_EmptyBodyRejected ==
  [][\A to \in SendTos, body \in SendBodies :
       (/\ send.pc = "idle"
        /\ to \in {Undefined, Str(<<>>)} \/ body \in {Undefined, Str(<<>>)}
        /\ PostSend(to, body, Undefined, AnswerWithoutId, TRUE))
       => /\ sendResp'.status = 400
          /\ UNCHANGED <<messages, providerReqs, send>>
    ]_vars

\* C9 witness: a send was answered 400 after other sends had reached the
\* provider and the store
C9_Witness ==
  /\ sendResp.status = 400
  /\ providerReqs # {}
  /\ messages # {}

\* C10: GET /api/webhook answers 200 with the challenge exactly when hub.mode
\* is "subscribe" and hub.verify_token is the configured token, 403 otherwise
\* (also when the token is unset and none is supplied), and writes nothing
C10_VerifyIffTokenMatches ==
  [][\A mode \in VerifyModes, token \in VerifyTokens, challenge \in Challenges :
       GetWebhook(mode, token, challenge) =>
         /\ IF mode = Str(<<"subscribe">>) /\ token = env.WEBHOOK_VERIFY_TOKEN
            THEN verifyResp' = [status |-> 200, body |-> challenge]
            ELSE verifyResp'.status = 403
         /\ UNCHANGED <<messages, webhook_logs>>
    ]_vars

\* C10 witness: a handshake was accepted, the challenge echoed, while the
\* store held a message and a log row
C10_Witness ==
  /\ messages # {}
  /\ webhook_logs # <<>>
  /\ verifyResp = [status |-> 200, body |-> Str(<<"1158201444">>)]

\* the status a processed status-update delivery carried for a message_id
ProcessedStatuses(id) ==
  UNION {{webhook_logs[i].payload.statuses[j].status :
            j \in {k \in DOMAIN webhook_logs[i].payload.statuses :
                     webhook_logs[i].payload.statuses[k].id = id}} :
         i \in {k \in DOMAIN webhook_logs :
                  /\ webhook_logs[k].processed
                  /\ webhook_logs[k].event_type = <<"status_update">>}}

\* C16: once the send of a message has stored its row and a status update
\* for its message_id has been processed, the row has the status the
\* update carried, whichever of the two came first.  (The code fails it.)
C16_StatusUpdateNeverLost ==
  \A r \in messages :
    (r.direction = "outbound" /\ ProcessedStatuses(r.message_id) # {})
    => r.status \in ProcessedStatuses(r.message_id)

\* the outbound row stored last for a number
LastSentTo(rows, phone) ==
  {r \in Outbound(rows, phone) : \A q \in Outbound(rows, phone) : q.id <= r.id}

\* C17: when the refresh that follows a successful send from the page has
\* arrived, the message list of the selected conversation holds the message
\* sent to its number.  (The code fails it.)
C17_SentMessageDisplayed ==
  [][\A i \in DOMAIN refreshes :
       (/\ i \in InFlight
        /\ refreshes[i].origin = "send"
        /\ refreshes[i].outcome = "ok"
        /\ ArriveRefresh(i))
       => \A r \in LastSentTo(messages, cleanPhone(selectedConversation.phoneNumber)) :
            \E j \in DOMAIN selectedConversation'.messages :
              selectedConversation'.messages[j].sid = r.message_id
    ]_vars

\* C18: once every refresh has been answered, all of them successfully, the
\* list on display is the one computed from the read made last.  (The code
\* fails it.)
C18_LatestReadDisplayed ==
  (/\ refreshes # <<>>
   /\ InFlight = {}
   /\ \A i \in DOMAIN refreshes : refreshes[i].outcome = "ok")
  => conversations = ConversationList(FormattedMessages(refreshes[Len(refreshes)].fetched))

Elements(seq) == {seq[j] : j \in DOMAIN seq}

\* the places of the conversation list that hold a message
PlacesOf(cs, message) ==
  {q \in Positions(cs) : cs[q[1]].messages[q[2]] = message}

\* C11: after a refresh every fetched message is in exactly one place of
\* exactly one conversation's list, and the lists hold nothing else
C11_LosslessPartition ==
  [][\A fetched \in Orderings(messages) :
       fetchMessages(fetched, "ok") =>
         LET F == FormattedMessages(fetched) IN
         /\ \A k \in DOMAIN F : Cardinality(PlacesOf(conversations', F[k])) = 1
         /\ \A q \in Positions(conversations') :
              conversations'[q[1]].messages[q[2]] \in Elements(F)
         /\ Cardinality(Positions(conversations')) = Len(F)
    ]_vars

\* C11 witness: the list on display holds the whole store, two messages of it
\* in one conversation
C11_Witness ==
  /\ Cardinality(messages) = MaxStored
  /\ Cardinality(Positions(conversations)) = MaxStored
  /\ \E i \in DOMAIN conversations : Len(conversations[i].messages) >= 2

\* C12: in every conversation of the list lastMessage is one of the
\* conversation's messages and none of them has a later timestamp
C12_LastMessageIsNewest ==
  \A i \in DOMAIN conversations :
    /\ conversations[i].lastMessage \in Elements(conversations[i].messages)
    /\ \A m \in Elements(conversations[i].messages) :
         m.date_sent <= conversations[i].lastMessage.date_sent

\* C12 witness: a conversation of two messages of different times, next to
\* nothing else, whose lastMessage is the later one
C12_Witness ==
  \E i \in DOMAIN conversations :
    /\ Len(conversations[i].messages) >= 2
    /\ \E m \in Elements(conversations[i].messages) :
         m.date_sent < conversations[i].lastMessage.date_sent

\* the messages of a conversation that none of its messages is later than
Newest(conversation) ==
  {m \in Elements(conversation.messages) :
     \A q \in Elements(conversation.messages) : q.date_sent <= m.date_sent}

\* the list on display is the one a refresh computes from the store as it is
ListIsFresh ==
  \E fetched \in Orderings(messages) :
    conversations = ConversationList(FormattedMessages(fetched))

ImmediatelyBefore(rows, r) ==
  LET earlier == {p \in rows : /\ p.phone_number = r.phone_number
                                /\ p # r
                                /\ p.timestamp <= r.timestamp}
  IN {p \in earlier : \A q \in earlier : q.timestamp <= p.timestamp}

\* C20: with the list fresh and one of its conversations selected, every
\* outbound message shown has the label the analytics rollup counts it
\* under, and is labelled automated exactly when the stored message that
\* immediately precedes it in the exchange with its counterparty is an
\* inbound one less than 30 seconds older.  (The code fails it.)
C20_LabelEqualsRollup ==
  (ListIsFresh /\ selectedConversation \in Elements(conversations))
  => \A j \in DOMAIN selectedConversation.messages :
       LET message == selectedConversation.messages[j] IN
       message.direction = "outbound-api" =>
         /\ ShownAsAi(selectedConversation, message)
            <=> CountedAsAi(selectedConversation.messages, j)
         /\ \A r \in messages :
              (r.message_id = message.sid /\ Cardinality(ImmediatelyBefore(messages, r)) <= 1)
              => (ShownAsAi(selectedConversation, message)
                  <=> \E p \in ImmediatelyBefore(messages, r) :
                        /\ p.direction = "inbound"
                        /\ r.timestamp - p.timestamp < AiWindow)

\* C14: in a deployment without the phone-number id or without the access
\* token a send with recipient and text is answered with the configuration
\* error, the provider receives no request and no row is written or pending
C14_NoCredentialsNoRequest ==
  [][(~Truthy(env.WHATSAPP_PHONE_NUMBER_ID) \/ ~Truthy(env.WHATSAPP_ACCESS_TOKEN))
     => /\ providerReqs' = {} /\ messages' = {} /\ send'.pc = "idle"
        /\ \A to \in {x \in SomeTos : Truthy(x)}, body \in {x \in SendBodies : Truthy(x)} :
             PostSend(to, body, Undefined, AnswerWithoutId, TRUE)
             => sendResp' = Response(500, FALSE, Str(<<"WhatsApp credentials not configured">>))
    ]_vars

\* C14 witness: without the access token a send was answered with the
\* configuration error and the provider has received nothing
C14_Witness ==
  /\ ~Truthy(env.WHATSAPP_ACCESS_TOKEN)
  /\ Truthy(env.WHATSAPP_PHONE_NUMBER_ID)
  /\ sendResp = Response(500, FALSE, Str(<<"WhatsApp credentials not configured">>))
  /\ providerReqs = {}

\* ways of writing a phone number
PhoneTexts == {<<"1">>, <<"+", "1">>, <<"+", " ", "1">>, <<"1", " ">>, <<"2">>}

\* C15: the key of a number is the same however it is written and cleaning
\* a clean number changes nothing; hence once a non-automated send to a
\* number has returned success, the gate asked with any writing of that
\* number, at once or up to just under two hours later, answers active.
\* (The code fails it.)
C15_SameKeyHenceActive ==
  [][\A outcome \in StoreOutcomes :
       (/\ send.pc = "insert"
        /\ ~send.isAiResponse
        /\ SendInsert(outcome)
        /\ sendResp'.success)
       => \A p \in {q \in PhoneTexts : cleanPhone(q) = send.cleanTo} :
            /\ cleanPhone(cleanPhone(p)) = cleanPhone(p)
            /\ \A t \in {now, now + ThresholdHours * Hour - 1} :
                 checkHumanActive(messages', cleanPhone(p), t, 0).humanActive
    ]_vars

\* C19 as written: in every answer of the gate humanActive is true exactly
\* when the reported (rounded) hoursRemaining is above 0
C19_ActiveIffReportedPositive ==
  gate.status = 200 => (gate.humanActive <=> gate.hoursRemaining > 0)

\* C19 amended: humanActive is true exactly when the last human reply of the
\* trailing two hours is less than two hours old when the hours are
\* computed; a reported hoursRemaining above 0 comes with humanActive, and
\* humanActive comes with a reported 0 only in the last 18 seconds
C19_ActiveIffTimeRemains ==
  [][\A phone \in GatePhones, lag \in Lags :
       (Truthy(phone) /\ CheckHuman(phone, lag, "ok")) =>
         LET recent == {r \in HumanOutbound(messages, cleanPhone(phone.v)) :
                          r.timestamp >= now - ThresholdHours * Hour}
             last == {r \in recent : \A q \in recent : q.timestamp <= r.timestamp}
         IN /\ gate'.humanActive
               <=> \E r \in last : now + lag - r.timestamp < ThresholdHours * Hour
            /\ gate'.hoursRemaining > 0 => gate'.humanActive
            /\ (gate'.humanActive /\ gate'.hoursRemaining = 0)
                 => \E r \in last :
                      now + lag - r.timestamp > ThresholdHours * Hour - 18000
    ]_vars

\* C19 witness: the gate answered active with 0.00 hours remaining
C19_Witness ==
  /\ gate.status = 200
  /\ gate.humanActive
  /\ gate.hoursRemaining = 0

\* the rows of a store, each without its status
WithoutStatus(rows) ==
  {[f \in DOMAIN r \ {"status"} |-> r[f]] : r \in rows}

\* the update of one status entry has been applied to the rows
Applied(before, after, entry) ==
  /\ WithoutStatus(after) = WithoutStatus(before)
  /\ \A r \in before : \E q \in after :
       /\ q.id = r.id
       /\ q.status = IF r.message_id = entry.id THEN entry.status ELSE r.status

\* C21: in a delivery of status entries and no message entry, one turn of the
\* loop sets the status of the rows with the entry's message_id to the entry's
\* status or, its update having failed, changes no row; either way the loop
\* goes on to the next entry, in the order of the entries, and after the last
\* one to the mark of the delivery: no failed update ends the loop.
C21_EveryStatusEntryTried ==
  [][\A h \in Slots :
       (wh[h].pc = "status" /\ wh'[h] # wh[h])
       => LET payload == wh[h].payload
              i == wh[h].i
          IN /\ Len(payload.messages) = 0
             /\ \/ messages' = messages
                \/ Applied(messages, messages', payload.statuses[i])
             /\ IF i < Len(payload.statuses)
                THEN wh'[h] = [pc |-> "status", payload |-> payload, i |-> i + 1]
                ELSE wh'[h].pc = "mark" /\ wh'[h].payload = payload]_vars

\* the update of the first entry has changed no row, and the loop is at the
\* second entry
C21_Witness ==
  /\ wh[1].pc = "status"
  /\ wh[1].i = 2
  /\ wh[1].payload.statuses = <<StDelivered1, StRead1>>
  /\ \E r \in messages : r.message_id = <<"wamid.1">> /\ r.status = "sent"

\* the delivery on slot h, before or after the step, is one of status entries
\* and no message entry
StatusOnly(rec) ==
  /\ rec.pc # "idle"
  /\ Len(rec.payload.messages) = 0
  /\ Len(rec.payload.statuses) > 0

\* C22: no step of a status-update delivery creates or deletes a Message row
\* or changes a field other than status; a row whose status a step changes
\* has the message_id of an entry of the payload and gets that entry's status.
C22_OnlyStatusOfMatchingRows ==
  [][\A h \in Slots :
       (wh'[h] # wh[h] /\ (StatusOnly(wh[h]) \/ StatusOnly(wh'[h])))
       => LET statuses == IF StatusOnly(wh[h]) THEN wh[h].payload.statuses
                          ELSE wh'[h].payload.statuses
          IN /\ Cardinality(messages') = Cardinality(messages)
             /\ WithoutStatus(messages') = WithoutStatus(messages)
             /\ \A r \in messages, q \in messages' :
                  (q.id = r.id /\ q.status # r.status)
                  => \E k \in DOMAIN statuses :
                       /\ statuses[k].id = r.message_id
                       /\ statuses[k].status = q.status]_vars

\* a processed delivery with an entry for an unknown id and one for a stored
\* row: the row has the entry's status, beside it an inbound row as it was
C22_Witness ==
  /\ wh[1].pc = "mark"
  /\ wh[1].payload.statuses = <<StRead2, StRead1>>
  /\ \E r \in messages : r.message_id = <<"wamid.1">> /\ r.status = "read"
  /\ \E r \in messages : r.direction = "inbound" /\ r.status = "received"
  /\ Cardinality(messages) = 2

\* the delivery on slot h carries message entries
WithMessages(rec) == rec.pc # "idle" /\ Len(rec.payload.messages) > 0

\* C23: the steps of a delivery that carries message entries add at most one
\* Message row and change no row there is, whatever status entries the
\* payload has beside them; the row added is made from the first message
\* entry: inbound, status received, is_ai_response false, its timestamp the
\* entry's epoch seconds as an absolute time (here in milliseconds); and the
\* only step that adds it is the one call of storeInboundMessage.
C23_AtMostTheFirstEntryStored ==
  [][\A h \in Slots :
       (wh'[h] # wh[h] /\ (WithMessages(wh[h]) \/ WithMessages(wh'[h])))
       => LET first == IF WithMessages(wh[h]) THEN wh[h].payload.messages[1]
                       ELSE wh'[h].payload.messages[1]
              added == messages' \ messages
          IN /\ messages \subseteq messages'
             /\ Cardinality(added) <= 1
             /\ added # {} => /\ wh[h].pc = "store"
                              /\ wh'[h].pc # "store"
             /\ \A r \in added :
                  /\ r.message_id = first.id
                  /\ r.phone_number = first.from
                  /\ r.direction = "inbound"
                  /\ r.status = "received"
                  /\ r.is_ai_response = FALSE
                  /\ r.timestamp = first.timestamp.v * 1000]_vars

\* a processed delivery of two message entries has stored the first, at the
\* time of its epoch seconds, and not the second
C23_Witness ==
  /\ \E r \in messages : r.message_id = MsgC.id /\ r.timestamp = 3600000
  /\ \A r \in messages : r.message_id # MsgA.id
  /\ \E k \in DOMAIN webhook_logs :
       /\ webhook_logs[k].processed
       /\ webhook_logs[k].payload.messages = <<MsgC, MsgA>>

\* the unprocessed rows of the log that record the given payload under its
\* field type
ArrivalRows(payload) ==
  {k \in DOMAIN webhook_logs :
     /\ ~webhook_logs[k].processed
     /\ webhook_logs[k].event_type = EventType(payload)
     /\ webhook_logs[k].payload = payload}

\* C24: when a step of a delivery inserts or updates a Message row, the log
\* holds an unprocessed row of that delivery's payload, tagged with its field
\* type or "unknown".
C24_LoggedBeforeMessageWrite ==
  [][\A h \in Slots :
       (wh'[h] # wh[h] /\ wh[h].pc \in {"store", "status"} /\ messages' # messages)
       => ArrivalRows(wh[h].payload) # {}]_vars

\* the step has appended to the log a processed message_received row of the
\* payload
AppendsReceived(payload) ==
  webhook_logs' = Append(webhook_logs, LogRow(<<"message_received">>, payload, TRUE, Null))

\* C25: a delivery appends a processed message_received row if and only if
\* it has itself inserted its inbound row: the call of storeInboundMessage is
\* followed by the mark exactly when it has added the row, the mark appends
\* the row to the log, and no other step of the delivery appends one; a
\* redelivery of a stored message_id changes no Message row and is not marked.
C25_MarkedIffInserted ==
  [][\A h \in Slots :
       (wh'[h] # wh[h] /\ WithMessages(wh[h]))
       => LET payload == wh[h].payload IN
          /\ wh[h].pc = "store" =>
               /\ (messages' # messages) <=> (wh'[h].pc = "mark")
               /\ payload.messages[1].id \in MessageIds(messages)
                  => messages' = messages
               /\ webhook_logs' = webhook_logs
          /\ wh[h].pc = "mark" => AppendsReceived(payload)
          /\ wh[h].pc = "catch" => ~AppendsReceived(payload)]_vars

\* the message entry has a caption (or text) that is present and not empty
HasContent(entry) == entry.content.t = "string" /\ entry.content.v # <<>>

\* C26: the body of the row storeInboundMessage adds is, for type text, the
\* entry's text (empty when there is none); for image, video and document
\* the caption when one is present and not empty and else "[Image]",
\* "[Video]", "[Document]"; for audio "[Audio]" whatever the caption; for any
\* other type the type name in square brackets.
C26_BodyByType ==
  [][\A h \in Slots :
       (wh[h].pc = "store" /\ wh'[h] # wh[h])
       => LET entry == wh[h].payload.messages[1] IN
          \A r \in messages' \ messages :
            /\ entry.type = "text" =>
                 r.body = IF HasContent(entry) THEN entry.content.v ELSE <<>>
            /\ (entry.type = "image" /\ ~HasContent(entry)) => r.body = <<"[Image]">>
            /\ (entry.type = "video" /\ ~HasContent(entry)) => r.body = <<"[Video]">>
            /\ (entry.type = "document" /\ ~HasContent(entry)) => r.body = <<"[Document]">>
            /\ (entry.type \in {"image", "video", "document"} /\ HasContent(entry))
               => r.body = entry.content.v
            /\ entry.type = "audio" => r.body = <<"[Audio]">>
            /\ entry.type \notin {"text", "image", "video", "audio", "document"}
               => r.body = <<"[", entry.type, "]">>]_vars

\* a document with an empty caption has been stored under its placeholder
C26_Witness ==
  /\ \E r \in messages : r.message_type = "document" /\ r.body = <<"[Document]">>
  /\ \E k \in DOMAIN webhook_logs :
       /\ webhook_logs[k].processed
       /\ webhook_logs[k].payload.messages[1].content = Str(<<>>)

\* the outbound messages of the page's conversations, as places in the lists
OutboundPlaces ==
  {q \in Positions(conversations) :
     conversations[q[1]].messages[q[2]].direction = "outbound-api"}

\* those whose next-older message in the conversation is inbound
ReplyPlaces ==
  {q \in OutboundPlaces :
     /\ q[2] + 1 <= Len(conversations[q[1]].messages)
     /\ conversations[q[1]].messages[q[2] + 1].direction = "inbound"}

\* how much older the next-older message is
Latency(q) ==
  conversations[q[1]].messages[q[2]].date_sent
  - conversations[q[1]].messages[q[2] + 1].date_sent

RECURSIVE LatencySum(_)
LatencySum(qs) ==
  IF qs = {} THEN 0
  ELSE LET q == CHOOSE q \in qs : TRUE IN Latency(q) + LatencySum(qs \ {q})

C28_FailedSendKeepsDraft ==
  [][/\ (sending /\ ~sending' /\ sendResp.status # 200)
        => /\ newMessage' = newMessage
           /\ Truthy(error')
           /\ selectedConversation' # Null
           /\ Trim(newMessage') # <<>>
     /\ newMessage' # newMessage
        => \/ ~sending /\ sending' = sending
           \/ newMessage' = <<>> /\ sending /\ sendResp.status = 200]_vars

\* the provider has refused a send: the draft is still there beside the error
C28_Witness ==
  /\ sendResp.status = 500
  /\ error = sendResp.error
  /\ newMessage = <<"hi">>
  /\ selectedConversation # Null
  /\ ~sending

\* the step starts a polling refresh
PollStarts ==
  /\ Len(refreshes') = Len(refreshes) + 1
  /\ refreshes'[Len(refreshes')].origin = "poll"

\* C29: after every step of the mounted page there is a polling timer
\* exactly while auto-refresh is on, and never more than one; a timer is due
\* within 5 seconds and time does not pass the moment it is due; a polling
\* refresh starts only while auto-refresh is on, at the moment the timer is
\* due, which is then due again 5 seconds later.
C29_OneTimerWhileOn ==
  [][/\ Cardinality(intervals') <= 1
     /\ ~Unmounted' => (autoRefresh' <=> intervals' # {})
     /\ \A due \in intervals' : now' <= due /\ due <= now' + 5000
     /\ PollStarts => /\ autoRefresh
                      /\ now \in intervals
                      /\ intervals' = {now + 5000}]_vars

\* auto-refresh was turned off and, half a period later, on again: the one
\* polling refresh started 5 seconds after that
C29_Witness ==
  /\ autoRefresh
  /\ \E i \in DOMAIN refreshes : refreshes[i].origin = "poll"
  /\ now > 5000
  /\ intervals = {now + 5000}

\* the Message rows stored for a phone number
RowsOf(phone) == {r \in messages : r.phone_number = phone}

\* the summary rows of a phone number
SummaryRows(phone) == {c \in conversations_table : c.phone_number = phone}

\* C30: each phone number with Message rows has one summary row, whose
\* total_messages is the number of those rows and whose last_message_at is
\* the greatest timestamp among them, in whatever order of timestamps the
\* rows were inserted.
C30_SummaryMatchesRows ==
  \A r \in messages :
    /\ Cardinality(SummaryRows(r.phone_number)) = 1
    /\ \A c \in SummaryRows(r.phone_number) :
         /\ c.total_messages = Cardinality(RowsOf(r.phone_number))
         /\ \A q \in RowsOf(r.phone_number) : q.timestamp <= c.last_message_at
         /\ \E q \in RowsOf(r.phone_number) : q.timestamp = c.last_message_at

====
